---- MODULE Spec2Model ----
(***************************************************************************)
(* Model of the tetris-cli game engine (src/src/tetris.rs) together with   *)
(* the piece geometry of src/src/screen.rs.  The engine is the record      *)
(* `tetris`; every method of Tetris is an operator from engine records to  *)
(* engine records, and the actions Update and Render apply the whole       *)
(* method to the engine once per step of the game loop.                    *)
(***************************************************************************)
EXTENDS Integers, Sequences, FiniteSets, TLC

(***************************************************************************)
(* Program constants.                                                      *)
(***************************************************************************)
GAME_WIDTH == 10
GAME_HEIGHT == 20
PLAYER_STARTING_X == 5
PLAYER_STARTING_Y == 3
SHAPE_PIXEL_COUNT == 4

\* screen::colors::basic
RED == 31
GREEN == 32
YELLOW == 33
BLUE == 34
MAGENTA == 35
CYAN == 36
BRIGHT_YELLOW == 93

\* RandomGenerator::new(101, 4, 1)
Modulus == 101
Multiplier == 4
Increment == 1

(***************************************************************************)
(* Bounds of the model.                                                    *)
(*  FRAME_RATE  crate::FRAME_RATE is read by Tetris::update but is set     *)
(*              outside the sources at hand; the model fixes a small tick  *)
(*              rate, so that a gravity step happens every few ticks.      *)
(*  MaxTicks    number of update calls explored after the opening.         *)
(***************************************************************************)
FRAME_RATE == 4
MaxTicks == 4

(***************************************************************************)
(* Option<Shape>: None is NoShape.  A Shape is its four pixel offsets (in  *)
(* array order) and the colour of its fill pixel (the glyph of the fill    *)
(* pixel is the same for every shape).                                     *)
(***************************************************************************)
NoShape == [pixels |-> <<>>, color |-> 0]

SQUARE == [pixels |-> << <<0, 0>>, <<1, 0>>, <<1, 1>>, <<0, 1>> >>, color |-> BRIGHT_YELLOW]
STRAIGHT == [pixels |-> << <<0, -1>>, <<0, 0>>, <<0, 1>>, <<0, 2>> >>, color |-> CYAN]
TEE == [pixels |-> << <<0, -1>>, <<0, 0>>, <<-1, 0>>, <<1, 0>> >>, color |-> MAGENTA]
LEFT_SKEWED == [pixels |-> << <<-1, 0>>, <<0, 0>>, <<0, -1>>, <<1, -1>> >>, color |-> GREEN]
RIGHT_SKEWED == [pixels |-> << <<-1, -1>>, <<0, 0>>, <<0, -1>>, <<1, 0>> >>, color |-> RED]
LEFT_L == [pixels |-> << <<-1, 0>>, <<0, 0>>, <<0, -1>>, <<0, -2>> >>, color |-> BLUE]
RIGHT_L == [pixels |-> << <<1, 0>>, <<0, 0>>, <<0, -1>>, <<0, -2>> >>, color |-> YELLOW]

SHAPES == <<SQUARE, STRAIGHT, TEE, LEFT_SKEWED, RIGHT_SKEWED, LEFT_L, RIGHT_L>>

(***************************************************************************)
(* Shape::rotate and Shape::flip (screen.rs).                              *)
(***************************************************************************)
\* variant: the two directions are exchanged
RotatePixelFlagReversed(p, rotate_left) ==
    IF rotate_left THEN <<p[2], -p[1]>> ELSE <<-p[2], p[1]>>

\* variant: the flag is ignored
RotatePixelAlwaysLeft(p, rotate_left) == <<-p[2], p[1]>>

RotatePixel(p, rotate_left) ==
    IF rotate_left THEN <<-p[2], p[1]>> ELSE <<p[2], -p[1]>>

rotate(shape, rotate_left) ==
    [shape EXCEPT !.pixels = << RotatePixel(shape.pixels[1], rotate_left),
                                RotatePixel(shape.pixels[2], rotate_left),
                                RotatePixel(shape.pixels[3], rotate_left),
                                RotatePixel(shape.pixels[4], rotate_left) >>]

\* variant: the coordinates are exchanged instead of one being negated
FlipPixelTransposes(p, horizontally) == <<p[2], p[1]>>

\* variant: the flip is done as a quarter turn
FlipPixelTurns(p, horizontally) ==
    IF horizontally THEN <<-p[2], p[1]>> ELSE <<p[2], -p[1]>>

FlipPixel(p, horizontally) ==
    IF horizontally THEN <<-p[1], p[2]>> ELSE <<p[1], -p[2]>>

flip(shape, horizontally) ==
    [shape EXCEPT !.pixels = << FlipPixel(shape.pixels[1], horizontally),
                                FlipPixel(shape.pixels[2], horizontally),
                                FlipPixel(shape.pixels[3], horizontally),
                                FlipPixel(shape.pixels[4], horizontally) >>]

(***************************************************************************)
(* Shape::is_within_bounds (screen.rs): bounds only, every pixel tested on *)
(* both axes.  The result is the pair (within_x_bounds, within_y_bounds).  *)
(***************************************************************************)
is_within_bounds(shape, x, y) ==
    << \A i \in 1..SHAPE_PIXEL_COUNT :
           ~(shape.pixels[i][1] + x > GAME_WIDTH \/ shape.pixels[i][1] + x <= 0),
       \A i \in 1..SHAPE_PIXEL_COUNT :
           ~(shape.pixels[i][2] + y >= GAME_HEIGHT \/ shape.pixels[i][2] + y <= 0) >>

(***************************************************************************)
(* The board: blocks is a sequence of GAME_HEIGHT rows of GAME_WIDTH       *)
(* cells, 0 for None and the colour code for Some(colour).  Rows and       *)
(* columns are numbered from 0 as in the code.                             *)
(***************************************************************************)
EmptyRow == <<0, 0, 0, 0, 0, 0, 0, 0, 0, 0>>

EmptyBlocks == [r \in 1..GAME_HEIGHT |-> EmptyRow]

CellAt(blocks, row, col) == blocks[row + 1][col + 1]

(***************************************************************************)
(* RandomGenerator::generate: the new seed, which is also the result.      *)
(***************************************************************************)
\* variant: the result is not reduced
GenerateWithoutModulus(seed) == Multiplier * seed + Increment

generate(seed) == (Multiplier * seed + Increment) % Modulus

(***************************************************************************)
(* Tetris::new.  fall_speed is kept in tenths (1.0 is 10).  fault is not a *)
(* field of the struct: it records that the thread panicked ("panic") or   *)
(* is caught in a loop that never ends ("spin").                           *)
(***************************************************************************)
new(seed) ==
    [ is_running |-> TRUE,
      seed |-> seed,
      fall_timer |-> 0,
      fall_speed |-> 10,
      player_x |-> PLAYER_STARTING_X,
      player_y |-> PLAYER_STARTING_Y,
      score |-> 0,
      blocks |-> EmptyBlocks,
      previous_shape |-> NoShape,
      current_shape |-> NoShape,
      held_shape |-> NoShape,
      can_hold_shape |-> TRUE,
      fault |-> "none" ]

Panic(e) == [e EXCEPT !.fault = "panic"]

(***************************************************************************)
(* Tetris::is_shape_in_bounds.  A pixel whose row is out of range clears   *)
(* the y flag and is looked at no further; otherwise a pixel whose column  *)
(* is out of range clears the x flag and is looked at no further;          *)
(* otherwise an occupied cell under the pixel clears both flags.           *)
(***************************************************************************)
PixelYOut(e, p) ==
    p[2] + e.player_y >= GAME_HEIGHT \/ p[2] + e.player_y <= 0

PixelXOut(e, p) ==
    p[1] + e.player_x > GAME_WIDTH \/ p[1] + e.player_x <= 0

PixelCollides(e, p) ==
    /\ ~PixelYOut(e, p)
    /\ ~PixelXOut(e, p)
    /\ CellAt(e.blocks, p[2] + e.player_y, p[1] + e.player_x - 1) # 0

is_shape_in_bounds(e) ==
    IF e.current_shape = NoShape
    THEN <<FALSE, FALSE>>
    ELSE LET px == e.current_shape.pixels
         IN << \A i \in 1..SHAPE_PIXEL_COUNT :
                   /\ ~(~PixelYOut(e, px[i]) /\ PixelXOut(e, px[i]))
                   /\ ~PixelCollides(e, px[i]),
               \A i \in 1..SHAPE_PIXEL_COUNT :
                   /\ ~PixelYOut(e, px[i])
                   /\ ~PixelCollides(e, px[i]) >>

(***************************************************************************)
(* The row-clear loop of Tetris::fossilize_current_piece: scan from row 0; *)
(* a full row is removed and an empty row inserted at index 0, and the     *)
(* scan continues at the same index.  The result is the board and the      *)
(* number of rows cleared.                                                 *)
(***************************************************************************)
RowFull(row) == \A c \in 1..Len(row) : row[c] # 0

RemoveRow(blocks, i) == SubSeq(blocks, 1, i) \o SubSeq(blocks, i + 2, Len(blocks))

\* variant: the empty row is pushed at the end instead of inserted at index 0
RECURSIVE ClearLoopPushesAtEnd(_, _, _)
ClearLoopPushesAtEnd(blocks, i, rows_cleared) ==
    IF ~(i < Len(blocks) - rows_cleared)
    THEN [blocks |-> blocks, rows_cleared |-> rows_cleared]
    ELSE IF RowFull(blocks[i + 1])
         THEN ClearLoopPushesAtEnd(RemoveRow(blocks, i) \o <<EmptyRow>>, i, rows_cleared + 1)
         ELSE ClearLoopPushesAtEnd(blocks, i + 1, rows_cleared)

\* variant: a full row is emptied where it is, so that no row moves
RECURSIVE ClearLoopEmptiesInPlace(_, _, _)
ClearLoopEmptiesInPlace(blocks, i, rows_cleared) ==
    IF ~(i < Len(blocks))
    THEN [blocks |-> blocks, rows_cleared |-> rows_cleared]
    ELSE IF RowFull(blocks[i + 1])
         THEN ClearLoopEmptiesInPlace([blocks EXCEPT ![i + 1] = EmptyRow], i + 1,
                                      rows_cleared + 1)
         ELSE ClearLoopEmptiesInPlace(blocks, i + 1, rows_cleared)

\* variant: the loop ends at the first full row it removes
RECURSIVE ClearLoopEndsAfterOneRow(_, _, _)
ClearLoopEndsAfterOneRow(blocks, i, rows_cleared) ==
    IF ~(i < Len(blocks))
    THEN [blocks |-> blocks, rows_cleared |-> rows_cleared]
    ELSE IF RowFull(blocks[i + 1])
         THEN [blocks |-> <<EmptyRow>> \o RemoveRow(blocks, i),
               rows_cleared |-> rows_cleared + 1]
         ELSE ClearLoopEndsAfterOneRow(blocks, i + 1, rows_cleared)

RECURSIVE ClearLoop(_, _, _)
ClearLoop(blocks, i, rows_cleared) ==
    IF ~(i < Len(blocks))
    THEN [blocks |-> blocks, rows_cleared |-> rows_cleared]
    ELSE IF RowFull(blocks[i + 1])
         THEN ClearLoop(<<EmptyRow>> \o RemoveRow(blocks, i), i, rows_cleared + 1)
         ELSE ClearLoop(blocks, i + 1, rows_cleared)

clear_full_rows(blocks) == ClearLoop(blocks, 0, 0)

(***************************************************************************)
(* Tetris::fossilize_current_piece.  FossilTargets are the (row, column)   *)
(* indices written for the four pixels; an index that is negative (the     *)
(* conversion to usize fails), not below the length of the indexed array,  *)
(* or computed from player_x - 1 with player_x = 0, panics.                *)
(***************************************************************************)
FossilTargets(e) ==
    [i \in 1..SHAPE_PIXEL_COUNT |->
        << e.current_shape.pixels[i][2] + e.player_y,
           e.current_shape.pixels[i][1] + (e.player_x - 1) >>]

TargetInRange(e, t) ==
    /\ e.player_x >= 1
    /\ t[1] >= 0 /\ t[1] < Len(e.blocks)
    /\ t[2] >= 0 /\ t[2] < GAME_WIDTH

WritePixels(blocks, targets, color) ==
    [r \in 1..Len(blocks) |->
        [c \in 1..GAME_WIDTH |->
            IF \E i \in 1..SHAPE_PIXEL_COUNT : targets[i] = <<r - 1, c - 1>>
            THEN color
            ELSE blocks[r][c]]]

\* variant: no bonus for clearing more than one row
ScoreGainWithoutBonus(rows_cleared) == rows_cleared * 100

\* variant: the speed goes up by one tenth whatever the number of rows
SpeedGainFlat(rows_cleared) == IF rows_cleared > 0 THEN 1 ELSE 0

\* self.score += rows_cleared * 100, and (rows_cleared - 1) * 25 if rows_cleared > 0
ScoreGain(rows_cleared) ==
    rows_cleared * 100 + (IF rows_cleared > 0 THEN (rows_cleared - 1) * 25 ELSE 0)

\* self.fall_speed += 0.1 * rows_cleared; fall_speed is counted in tenths
SpeedGain(rows_cleared) == rows_cleared

fossilize_current_piece(e) ==
    IF e.current_shape = NoShape
    THEN [e EXCEPT !.can_hold_shape = TRUE]
    ELSE IF \E i \in 1..SHAPE_PIXEL_COUNT : ~TargetInRange(e, FossilTargets(e)[i])
         THEN Panic(e)
         ELSE LET written == WritePixels(e.blocks, FossilTargets(e), e.current_shape.color)
                  cleared == clear_full_rows(written)
              IN [e EXCEPT !.blocks = cleared.blocks,
                           !.previous_shape = e.current_shape,
                           !.current_shape = NoShape,
                           !.score = @ + ScoreGain(cleared.rows_cleared),
                           !.fall_speed = @ + SpeedGain(cleared.rows_cleared),
                           !.can_hold_shape = TRUE]

(***************************************************************************)
(* Tetris::fall_until_hit: move down while the y flag holds, then one row  *)
(* back up.                                                                *)
(***************************************************************************)
StepUp(e) ==
    IF e.player_y = 0 THEN Panic(e) ELSE [e EXCEPT !.player_y = @ - 1]

RECURSIVE fall_until_hit(_)
fall_until_hit(e) ==
    IF is_shape_in_bounds(e)[2]
    THEN fall_until_hit([e EXCEPT !.player_y = @ + 1])
    ELSE StepUp(e)

(***************************************************************************)
(* Tetris::update, first half: the gravity step and the fall timer.        *)
(***************************************************************************)
\* variant: the gravity step is never taken
GravityNeverDue(e) == FALSE

GravityDue(e) == e.fall_timer >= FRAME_RATE \div 2

gravity_step(e) ==
    IF ~GravityDue(e)
    THEN e
    ELSE LET e0 == [e EXCEPT !.fall_timer = 0]
         IN IF is_shape_in_bounds(e0)[2]
            THEN [e0 EXCEPT !.player_y = @ + 1]
            ELSE IF StepUp(e0).fault # "none"
                 THEN StepUp(e0)
                 ELSE fossilize_current_piece(StepUp(e0))

\* self.fall_timer += self.fall_speed as u16 (the cast drops the fraction)
advance_timer(e) == [e EXCEPT !.fall_timer = @ + (e.fall_speed \div 10)]

(***************************************************************************)
(* Tetris::update, second half: the dispatch of the character read from    *)
(* the input channel.  NoInput stands for an empty channel, "other" for    *)
(* any character that is no command.                                       *)
(***************************************************************************)
NoInput == "none"

Commands == {"q", "a", "d", "s", "w", "z", "x", "h", " "}

Inputs == Commands \cup {"other", NoInput}

move_left(e) ==
    IF e.player_x > 0
    THEN LET moved == [e EXCEPT !.player_x = @ - 1]
         IN IF ~is_shape_in_bounds(moved)[1] THEN e ELSE moved
    ELSE e

move_right(e) ==
    LET moved == [e EXCEPT !.player_x = @ + 1]
    IN IF ~is_shape_in_bounds(moved)[1] THEN e ELSE moved

\* the 's' arm (rotate_left = TRUE) and the 'w' arm (rotate_left = FALSE)
rotate_quarter(e, rotate_left) ==
    IF e.current_shape = NoShape
    THEN e
    ELSE LET turned == rotate(e.current_shape, rotate_left)
             within == is_within_bounds(turned, e.player_x, e.player_y)
         IN IF ~within[1] \/ ~within[2]
            THEN [e EXCEPT !.current_shape = rotate(turned, ~rotate_left)]
            ELSE [e EXCEPT !.current_shape = turned]

\* the 'z' arm (rotate_left = TRUE) and the 'x' arm (rotate_left = FALSE)
rotate_half(e, rotate_left) ==
    IF e.current_shape = NoShape
    THEN e
    ELSE LET turned == rotate(rotate(e.current_shape, rotate_left), rotate_left)
             within == is_within_bounds(turned, e.player_x, e.player_y)
         IN IF ~within[1] \/ ~within[2]
            THEN [e EXCEPT !.current_shape = rotate(turned, ~rotate_left)]
            ELSE [e EXCEPT !.current_shape = turned]

\* variant: the hold leaves the anchor where it is
HoldKeepsAnchor(e) ==
    IF e.can_hold_shape
    THEN [e EXCEPT !.current_shape = e.held_shape,
                   !.previous_shape = e.current_shape,
                   !.held_shape = e.current_shape,
                   !.can_hold_shape = FALSE]
    ELSE e

\* variant: the hold leaves the permission as it is
HoldKeepsPermission(e) ==
    IF e.can_hold_shape
    THEN [e EXCEPT !.current_shape = e.held_shape,
                   !.previous_shape = e.current_shape,
                   !.held_shape = e.current_shape,
                   !.player_x = PLAYER_STARTING_X,
                   !.player_y = PLAYER_STARTING_Y]
    ELSE e

hold(e) ==
    IF e.can_hold_shape
    THEN [e EXCEPT !.current_shape = e.held_shape,
                   !.previous_shape = e.current_shape,
                   !.held_shape = e.current_shape,
                   !.player_x = PLAYER_STARTING_X,
                   !.player_y = PLAYER_STARTING_Y,
                   !.can_hold_shape = FALSE]
    ELSE e

\* variant: the piece is fossilized where it is, without falling first
HardDropWithoutFall(e) == fossilize_current_piece(e)

hard_drop(e) ==
    IF fall_until_hit(e).fault # "none"
    THEN fall_until_hit(e)
    ELSE fossilize_current_piece(fall_until_hit(e))

dispatch(e, input) ==
    CASE input = "q" -> [e EXCEPT !.is_running = FALSE]
      [] input = "a" -> move_left(e)
      [] input = "d" -> move_right(e)
      [] input = "s" -> rotate_quarter(e, TRUE)
      [] input = "w" -> rotate_quarter(e, FALSE)
      [] input = "z" -> rotate_half(e, TRUE)
      [] input = "x" -> rotate_half(e, FALSE)
      [] input = "h" -> hold(e)
      [] input = " " -> hard_drop(e)
      [] OTHER -> e

\* the engine between the timer advance and the input dispatch
before_dispatch(e) ==
    IF gravity_step(e).fault # "none"
    THEN gravity_step(e)
    ELSE advance_timer(gravity_step(e))

update(e, input) ==
    IF before_dispatch(e).fault # "none"
    THEN before_dispatch(e)
    ELSE dispatch(before_dispatch(e), input)

(***************************************************************************)
(* Tetris::render: the ghost piece, then the spawn of a new piece when     *)
(* there is none.  The drawing calls write to the screen only.             *)
(***************************************************************************)
\* variant: the ghost is computed where the piece is
GhostWithoutFall(e) == e

ghost(e) == fall_until_hit(e)

\* the spawn loop: draws left is the number of generator states not yet
\* seen; a loop that has seen them all without a break never ends
RECURSIVE spawn_loop(_, _, _)
spawn_loop(seed, previous_shape, left) ==
    LET drawn == generate(seed)
        generated_shape == SHAPES[(drawn % 7) + 1]
    IN IF previous_shape = NoShape \/ generated_shape # previous_shape
       THEN [seed |-> drawn, shape |-> generated_shape, ends |-> TRUE]
       ELSE IF left = 0
            THEN [seed |-> drawn, shape |-> NoShape, ends |-> FALSE]
            ELSE spawn_loop(drawn, previous_shape, left - 1)

\* variant: the check of the spawned piece is left out
SpawnWithoutCheck(e) ==
    LET got == spawn_loop(e.seed, e.previous_shape, Modulus)
        e1 == [e EXCEPT !.player_x = PLAYER_STARTING_X,
                        !.player_y = PLAYER_STARTING_Y,
                        !.seed = got.seed,
                        !.current_shape = got.shape]
    IN IF ~got.ends THEN [e1 EXCEPT !.fault = "spin"] ELSE e1

\* variant: the piece is spawned two rows higher
SpawnTwoRowsHigher(e) ==
    LET got == spawn_loop(e.seed, e.previous_shape, Modulus)
        e1 == [e EXCEPT !.player_x = PLAYER_STARTING_X,
                        !.player_y = PLAYER_STARTING_Y - 2,
                        !.seed = got.seed,
                        !.current_shape = got.shape]
    IN IF ~got.ends
       THEN [e1 EXCEPT !.fault = "spin"]
       ELSE IF ~is_shape_in_bounds(e1)[1] \/ ~is_shape_in_bounds(e1)[2]
            THEN [e1 EXCEPT !.is_running = FALSE]
            ELSE e1

spawn(e) ==
    LET got == spawn_loop(e.seed, e.previous_shape, Modulus)
        e1 == [e EXCEPT !.player_x = PLAYER_STARTING_X,
                        !.player_y = PLAYER_STARTING_Y,
                        !.seed = got.seed,
                        !.current_shape = got.shape]
    IN IF ~got.ends
       THEN [e1 EXCEPT !.fault = "spin"]
       ELSE IF ~is_shape_in_bounds(e1)[1] \/ ~is_shape_in_bounds(e1)[2]
            THEN [e1 EXCEPT !.is_running = FALSE]
            ELSE e1

\* variant: player_y is not set back to the saved value after the ghost
RenderWithoutRestore(e) ==
    IF ghost(e).fault # "none"
    THEN ghost(e)
    ELSE IF ghost(e).current_shape = NoShape THEN spawn(ghost(e)) ELSE ghost(e)

render(e) ==
    IF ghost(e).fault # "none"
    THEN ghost(e)
    ELSE LET e1 == [ghost(e) EXCEPT !.player_y = e.player_y]
         IN IF e1.current_shape = NoShape THEN spawn(e1) ELSE e1

(***************************************************************************)
(* The calls of fossilize_current_piece with a piece present that one      *)
(* update makes: the engine as it is at the call (at most one call finds a *)
(* piece, since the first takes it).                                       *)
(***************************************************************************)
GravityFossilCalls(e) ==
    IF /\ GravityDue(e)
       /\ ~is_shape_in_bounds(e)[2]
       /\ e.current_shape # NoShape
       /\ StepUp([e EXCEPT !.fall_timer = 0]).fault = "none"
    THEN {StepUp([e EXCEPT !.fall_timer = 0])}
    ELSE {}

DropFossilCalls(e, input) ==
    IF /\ input = " "
       /\ before_dispatch(e).fault = "none"
       /\ before_dispatch(e).current_shape # NoShape
       /\ fall_until_hit(before_dispatch(e)).fault = "none"
    THEN {fall_until_hit(before_dispatch(e))}
    ELSE {}

FossilCalls(e, input) == GravityFossilCalls(e) \cup DropFossilCalls(e, input)

\* the rows the call clears, when its writes are all in range
RowsClearedBy(c) ==
    clear_full_rows(WritePixels(c.blocks, FossilTargets(c), c.current_shape.color)).rows_cleared

(***************************************************************************)
(* The game loop: render once, then update and render while is_running.    *)
(* Replay runs the loop over a given sequence of inputs.                   *)
(***************************************************************************)
RECURSIVE Replay(_, _)
Replay(e, keys) ==
    IF keys = <<>> \/ ~e.is_running \/ e.fault # "none"
    THEN e
    ELSE Replay(render(update(e, Head(keys))), Tail(keys))

Idle(n) == [i \in 1..n |-> NoInput]

(***************************************************************************)
(* Seeds (modulo Modulus) and openings: input sequences played from the    *)
(* constructed engine, after which every input is explored.                *)
(***************************************************************************)
RowOne == <<"s", "a", "a", " ", "s", " ", "d", "d", "d", " ">>

RowsTwo ==
    RowOne \o <<"s", "a", "a", " ", "d", "d", " ", "a", "a", "a", "a", " ">>

RowsThree ==
    <<"a", "a", "a", " ", "s", "a", " ", "d", "d", "d", "d", " ", "s", "d", "d", " ",
      "d", " ", "s", "s", "s", " ", "s", "s", "a", "a", "a", "a", " ">>

RowsFour ==
    <<"a", "a", "a", "a", " ", "s", "s", "a", "a", " ", " ", "s", "d", " ", " ",
      "a", "a", "a", " ", "a", " ", "d", "d", "d", " ", "s", "s", "s", "d", "d", "d", "d",
      " ", "d", "d", "d", " ", "d", " ">>

FixedSeed == CHOOSE seed \in 0..(Modulus - 1) : generate(seed) = seed

ToRightWall == <<"d", "d", "d", "d", "d">>

Openings ==
    { \* the first piece at the spawn position
      [seed |-> 0, keys |-> <<>>],
      \* the first piece, upright, one row above its resting place
      [seed |-> 0, keys |-> Idle(28)],
      \* the first piece, lying flat against the right wall on the floor
      [seed |-> 0, keys |-> <<"s", "d", "d", "d", "d">> \o Idle(29)],
      \* a piece lying flat right above the blocks of two fossilized pieces
      [seed |-> 0, keys |-> RowOne \o <<"s">> \o Idle(26)],
      \* an upright STRAIGHT above a well beside 1, 2, 3 and 4 rows that
      \* lack only the well's cell
      [seed |-> 0, keys |-> RowOne \o ToRightWall],
      [seed |-> 0, keys |-> RowsTwo \o ToRightWall],
      [seed |-> 12, keys |-> RowsThree \o ToRightWall],
      [seed |-> 3, keys |-> RowsFour \o ToRightWall],
      \* five pieces dropped where they spawn: the pile reaches the spawn rows
      [seed |-> 0, keys |-> <<" ", " ", " ", " ", " ">>],
      \* the seed the generator maps to itself: every draw is RIGHT_SKEWED
      [seed |-> FixedSeed, keys |-> <<>>] }

VARIABLES tetris, phase, ticks, last

vars == <<tetris, phase, ticks, last>>

\* last records what the last step did; fossil_kind is the colour of the
\* piece fossilized last since the opening (0 when there was none)
NoEvent ==
    [op |-> "none", input |-> NoInput, fossilized |-> FALSE, rows_cleared |-> 0,
     fossil_kind |-> 0]

Init ==
    \E o \in Openings :
        /\ tetris = Replay(render(new(o.seed)), o.keys)
        /\ phase = "update"
        /\ ticks = 0
        /\ last = NoEvent

UpdateEvent(e, input, fossil_kind) ==
    [op |-> "update",
     input |-> input,
     fossilized |-> FossilCalls(e, input) # {} /\ update(e, input).fault = "none",
     rows_cleared |-> IF FossilCalls(e, input) # {} /\ update(e, input).fault = "none"
                      THEN RowsClearedBy(CHOOSE c \in FossilCalls(e, input) : TRUE)
                      ELSE 0,
     fossil_kind |-> IF FossilCalls(e, input) # {} /\ update(e, input).fault = "none"
                     THEN (CHOOSE c \in FossilCalls(e, input) : TRUE).current_shape.color
                     ELSE fossil_kind]

Update ==
    /\ phase = "update"
    /\ tetris.is_running
    /\ tetris.fault = "none"
    /\ ticks < MaxTicks
    /\ \E input \in Inputs :
          /\ tetris' = update(tetris, input)
          /\ last' = UpdateEvent(tetris, input, last.fossil_kind)
    /\ phase' = "render"
    /\ ticks' = ticks + 1

Render ==
    /\ phase = "render"
    /\ tetris.fault = "none"
    /\ tetris' = render(tetris)
    /\ phase' = "update"
    /\ last' = [NoEvent EXCEPT !.op = "render", !.fossil_kind = last.fossil_kind]
    /\ UNCHANGED ticks

Next == Update \/ Render

Spec == Init /\ [][Next]_vars

(***************************************************************************)
(* Vocabulary of the properties.  A cell is named by its absolute           *)
(* coordinates (bx, by) = anchor + offset; it lies on board row by and      *)
(* board column bx - 1.                                                     *)
(***************************************************************************)
UpdateStep == phase = "update" /\ phase' = "render"

PieceCells(shape, x, y) ==
    {<<shape.pixels[i][1] + x, shape.pixels[i][2] + y>> : i \in 1..SHAPE_PIXEL_COUNT}

CellInXBounds(cell) == cell[1] >= 1 /\ cell[1] <= GAME_WIDTH

CellInYBounds(cell) == cell[2] >= 1 /\ cell[2] <= GAME_HEIGHT - 1

CellOnBoard(cell) ==
    /\ cell[1] >= 1 /\ cell[1] <= GAME_WIDTH
    /\ cell[2] >= 0 /\ cell[2] <= GAME_HEIGHT - 1

CellOccupied(blocks, cell) ==
    CellOnBoard(cell) /\ CellAt(blocks, cell[2], cell[1] - 1) # 0

\* no cell out of bounds and no cell on an occupied board cell
PlacementLegal(blocks, shape, x, y) ==
    \A cell \in PieceCells(shape, x, y) :
        CellInXBounds(cell) /\ CellInYBounds(cell) /\ ~CellOccupied(blocks, cell)

OccupiedCount(blocks) ==
    Cardinality({rc \in (1..Len(blocks)) \X (1..GAME_WIDTH) : blocks[rc[1]][rc[2]] # 0})

(***************************************************************************)
(* C1: one update tick never ends in an unrecoverable error: every board   *)
(* index it uses is in range and the anchor never underflows, so the       *)
(* thread never panics.                                                    *)
(***************************************************************************)
C1_TickNeverPanics == tetris.fault # "panic"

(***************************************************************************)
(* C2: after a 90-degree rotate command ('s' or 'w'), the offsets are the  *)
(* ones before the command if the rotated piece at the current anchor has  *)
(* a cell out of bounds or on an occupied cell, and the rotated offsets    *)
(* otherwise.                                                              *)
(***************************************************************************)
C2_RotateRevertsWhenIllegal ==
    [][ (/\ UpdateStep
         /\ last'.input \in {"s", "w"}
         /\ before_dispatch(tetris).fault = "none"
         /\ before_dispatch(tetris).current_shape # NoShape)
        => LET m == before_dispatch(tetris)
               turned == rotate(m.current_shape, last'.input = "s")
           IN tetris'.current_shape =
                 IF PlacementLegal(m.blocks, turned, m.player_x, m.player_y)
                 THEN turned
                 ELSE m.current_shape ]_vars

(***************************************************************************)
(* C3: after a 180-degree rotate command ('z' or 'x') whose result is      *)
(* illegal at the current anchor, the offsets are the ones before the      *)
(* command.                                                                *)
(***************************************************************************)
C3_HalfTurnRestoresWhenIllegal ==
    [][ (/\ UpdateStep
         /\ last'.input \in {"z", "x"}
         /\ before_dispatch(tetris).fault = "none"
         /\ before_dispatch(tetris).current_shape # NoShape)
        => LET m == before_dispatch(tetris)
               turned == rotate(rotate(m.current_shape, last'.input = "z"),
                                last'.input = "z")
           IN ~PlacementLegal(m.blocks, turned, m.player_x, m.player_y)
                 => tetris'.current_shape = m.current_shape ]_vars

(***************************************************************************)
(* C4: a move-left ('a') or move-right ('d') command changes the anchor x  *)
(* by exactly one, and only if at the new anchor every cell of the piece   *)
(* is within the horizontal bounds and on no occupied cell; otherwise the  *)
(* anchor is unchanged.                                                    *)
(***************************************************************************)
C4_MoveOnlyToLegalColumn ==
    [][ (/\ UpdateStep
         /\ last'.input \in {"a", "d"}
         /\ before_dispatch(tetris).fault = "none")
        => LET m == before_dispatch(tetris)
               target == IF last'.input = "a" THEN m.player_x - 1 ELSE m.player_x + 1
           IN \/ tetris'.player_x = m.player_x
              \/ /\ tetris'.player_x = target
                 /\ m.current_shape # NoShape
                 /\ \A cell \in PieceCells(m.current_shape, target, m.player_y) :
                        CellInXBounds(cell) /\ ~CellOccupied(m.blocks, cell) ]_vars

(***************************************************************************)
(* C5: a gravity step moves the piece down one row only when the lower     *)
(* position is legal and fossilizes it where it is when the lower position *)
(* is blocked; so after every gravity step the active piece, if there is   *)
(* one, is within bounds on both axes and overlaps no occupied cell.       *)
(***************************************************************************)
C5_GravityKeepsPieceLegal ==
    [][ (/\ UpdateStep
         /\ GravityDue(tetris)
         /\ tetris.current_shape # NoShape
         /\ gravity_step(tetris).fault = "none")
        => LET g == gravity_step(tetris)
           IN /\ g.current_shape # NoShape
                    => /\ is_shape_in_bounds(g) = <<TRUE, TRUE>>
                       /\ PlacementLegal(g.blocks, g.current_shape, g.player_x, g.player_y)
              /\ g.current_shape = NoShape
                    => ~PlacementLegal(tetris.blocks, tetris.current_shape,
                                       tetris.player_x, tetris.player_y + 1) ]_vars

(***************************************************************************)
(* C6: whenever a piece is fossilized, each of its four cells is on the    *)
(* board and empty right before the write, so the write adds exactly four  *)
(* occupied cells (before rows are cleared).                               *)
(***************************************************************************)
C6_FossilizeWritesEmptyCells ==
    [][ UpdateStep
        => \A c \in FossilCalls(tetris, last'.input) :
              /\ \A i \in 1..SHAPE_PIXEL_COUNT :
                    TargetInRange(c, FossilTargets(c)[i])
                       => CellAt(c.blocks, FossilTargets(c)[i][1], FossilTargets(c)[i][2]) = 0
              /\ (\A i \in 1..SHAPE_PIXEL_COUNT : TargetInRange(c, FossilTargets(c)[i]))
                    => OccupiedCount(WritePixels(c.blocks, FossilTargets(c),
                                                 c.current_shape.color))
                          = OccupiedCount(c.blocks) + SHAPE_PIXEL_COUNT ]_vars

(***************************************************************************)
(* The row-clear loop on its own: SpecClear draws a board (the board as it *)
(* is after the pixel writes of a fossilization) and runs the loop on it.  *)
(* The full rows of the board are a block of consecutive rows and up to    *)
(* MaxScattered further rows; every other row r carries the number r in    *)
(* binary in its first cells, so that no two of them are equal and row 0   *)
(* is empty.                                                               *)
(***************************************************************************)
MaxScattered == 1

FullRow == [c \in 1..GAME_WIDTH |-> CYAN]

Bit(n, c) == (n \div (2 ^ (c - 1))) % 2

MarkedRow(r) == [c \in 1..GAME_WIDTH |-> IF Bit(r, c) = 1 THEN RED ELSE 0]

BoardWithFullRows(full) ==
    [r \in 1..GAME_HEIGHT |-> IF (r - 1) \in full THEN FullRow ELSE MarkedRow(r - 1)]

RowIndices == 0..(GAME_HEIGHT - 1)

ScatteredSets == {s \in SUBSET RowIndices : Cardinality(s) <= MaxScattered}

InitClear ==
    \E a \in 0..GAME_HEIGHT, b \in 0..GAME_HEIGHT, s \in ScatteredSets :
        /\ a <= b
        /\ tetris = [new(0) EXCEPT !.blocks =
                        BoardWithFullRows({r \in RowIndices : a <= r /\ r < b} \cup s)]
        /\ phase = "clear"
        /\ ticks = 0
        /\ last = NoEvent

ClearRows ==
    /\ phase = "clear"
    /\ tetris' = [tetris EXCEPT !.blocks = clear_full_rows(tetris.blocks).blocks]
    /\ last' = [NoEvent EXCEPT !.op = "clear",
                               !.rows_cleared = clear_full_rows(tetris.blocks).rows_cleared]
    /\ phase' = "cleared"
    /\ UNCHANGED ticks

NextClear == ClearRows

SpecClear == InitClear /\ [][NextClear]_vars

FullRowsOf(blocks) == {r \in RowIndices : RowFull(blocks[r + 1])}

FullAbove(blocks, r) == Cardinality({q \in FullRowsOf(blocks) : q < r})

FullBelow(blocks, r) == Cardinality({q \in FullRowsOf(blocks) : q > r})

NotFull(row) == ~RowFull(row)

(***************************************************************************)
(* C7: line clearing on a board with exactly k full rows removes exactly   *)
(* those k rows, keeps the other rows in their order with their contents,  *)
(* puts k empty rows at the top, and leaves GAME_HEIGHT rows of GAME_WIDTH *)
(* cells.                                                                  *)
(***************************************************************************)
C7_ClearRemovesExactlyFullRows ==
    [][ phase = "clear"
        => LET k == Cardinality(FullRowsOf(tetris.blocks))
           IN /\ last'.rows_cleared = k
              /\ Len(tetris'.blocks) = GAME_HEIGHT
              /\ \A r \in 1..GAME_HEIGHT : Len(tetris'.blocks[r]) = GAME_WIDTH
              /\ \A r \in 1..k : tetris'.blocks[r] = EmptyRow
              /\ SubSeq(tetris'.blocks, k + 1, GAME_HEIGHT)
                    = SelectSeq(tetris.blocks, NotFull) ]_vars

C7_Witness ==
    /\ phase = "cleared"
    /\ last.rows_cleared = 3
    /\ tetris.blocks[3] = EmptyRow
    /\ tetris.blocks[5] = MarkedRow(1)
    /\ tetris.blocks[GAME_HEIGHT] = MarkedRow(GAME_HEIGHT - 1)

(***************************************************************************)
(* C8, as stated: after line clearing every surviving row has moved down   *)
(* by the number of removed rows that were above it.                       *)
(***************************************************************************)
C8_SurvivorMovesByRowsAbove ==
    [][ phase = "clear"
        => \A r \in RowIndices \ FullRowsOf(tetris.blocks) :
              /\ r + FullAbove(tetris.blocks, r) < GAME_HEIGHT
              /\ tetris'.blocks[r + FullAbove(tetris.blocks, r) + 1] = tetris.blocks[r + 1] ]_vars

(***************************************************************************)
(* C8, amended: after line clearing every surviving row has moved down by  *)
(* the number of removed rows that were below it.                          *)
(***************************************************************************)
C8_SurvivorMovesByRowsBelow ==
    [][ phase = "clear"
        => \A r \in RowIndices \ FullRowsOf(tetris.blocks) :
              /\ r + FullBelow(tetris.blocks, r) < GAME_HEIGHT
              /\ tetris'.blocks[r + FullBelow(tetris.blocks, r) + 1] = tetris.blocks[r + 1] ]_vars

C8_Witness ==
    /\ phase = "cleared"
    /\ last.rows_cleared = 2
    /\ tetris.blocks[7] = MarkedRow(4)
    /\ tetris.blocks[GAME_HEIGHT] = MarkedRow(GAME_HEIGHT - 1)

\* the full rows of the board of a fossilize call right after its four writes
FullRowsAfterWrite(c) ==
    FullRowsOf(WritePixels(c.blocks, FossilTargets(c), c.current_shape.color))

(***************************************************************************)
(* C9: a fossilization that clears k rows (k from 0 to 4) adds exactly     *)
(* 100*k + 25*max(0, k-1) to the score, and a step without fossilization   *)
(* leaves the score as it is.                                              *)
(***************************************************************************)
C9_ScoreGainOnFossilize ==
    [][ /\ last'.fossilized
            => \A c \in FossilCalls(tetris, last'.input) :
                  LET k == Cardinality(FullRowsAfterWrite(c))
                  IN /\ k \in 0..4
                     /\ tetris'.score - tetris.score
                           = 100 * k + 25 * (IF k - 1 > 0 THEN k - 1 ELSE 0)
        /\ ~last'.fossilized => tetris'.score = tetris.score ]_vars

C9_Witness ==
    /\ last.fossilized
    /\ last.rows_cleared = 4
    /\ tetris.score = 475

(***************************************************************************)
(* C10: a fossilization that clears k rows adds exactly k tenths to        *)
(* fall_speed, a step without fossilization leaves fall_speed as it is,    *)
(* and fall_speed never decreases.                                         *)
(***************************************************************************)
C10_SpeedGainOnFossilize ==
    [][ /\ last'.fossilized
            => \A c \in FossilCalls(tetris, last'.input) :
                  tetris'.fall_speed - tetris.fall_speed = Cardinality(FullRowsAfterWrite(c))
        /\ ~last'.fossilized => tetris'.fall_speed = tetris.fall_speed
        /\ tetris'.fall_speed >= tetris.fall_speed ]_vars

C10_Witness ==
    /\ last.fossilized
    /\ last.rows_cleared = 3
    /\ tetris.fall_speed = 13

(***************************************************************************)
(* C11: each tick advances fall_timer by the full value of fall_speed, the *)
(* fraction included: counted in tenths, the advance of the timer is the   *)
(* fall_speed at the time of the advance.                                  *)
(***************************************************************************)
C11_TimerAdvancesByFullSpeed ==
    [][ (UpdateStep /\ before_dispatch(tetris).fault = "none")
        => 10 * (before_dispatch(tetris).fall_timer - gravity_step(tetris).fall_timer)
              = gravity_step(tetris).fall_speed ]_vars

(***************************************************************************)
(* C12: the kind of every newly spawned piece differs from the kind of the *)
(* piece fossilized last.  The kind of a shape is its colour, which no     *)
(* rotation changes and no two kinds share.                                *)
(***************************************************************************)
SpawnStep ==
    phase = "render" /\ tetris.current_shape = NoShape /\ tetris'.current_shape # NoShape

C12_SpawnDiffersFromLastFossilized ==
    [][ (SpawnStep /\ last.fossil_kind # 0)
        => tetris'.current_shape.color # last.fossil_kind ]_vars

(***************************************************************************)
(* C13: the resampling loop of the spawn step ends for every generator     *)
(* seed and every remembered previous piece: the engine is never caught in *)
(* it.                                                                     *)
(***************************************************************************)
C13_SpawnLoopEnds == tetris.fault # "spin"

(***************************************************************************)
(* C14: a hard drop (' ') issued while the active piece is at a legal      *)
(* position fossilizes it in the same tick, with x and offsets unchanged,  *)
(* at the lowest row it reaches by moving straight down through legal      *)
(* positions only: every row from the start to the landing row is legal,   *)
(* the row below the landing row is not, and the four cells of the piece   *)
(* at the landing row are the four cells the board gains.                  *)
(***************************************************************************)
C14_HardDropLandsOnLowestLegalRow ==
    [][ (/\ UpdateStep
         /\ last'.input = " "
         /\ before_dispatch(tetris).fault = "none"
         /\ before_dispatch(tetris).current_shape # NoShape
         /\ PlacementLegal(before_dispatch(tetris).blocks,
                           before_dispatch(tetris).current_shape,
                           before_dispatch(tetris).player_x,
                           before_dispatch(tetris).player_y))
        => LET m == before_dispatch(tetris)
               landed == tetris'.player_y
           IN /\ tetris'.fault = "none"
              /\ tetris'.current_shape = NoShape
              /\ tetris'.previous_shape = m.current_shape
              /\ tetris'.player_x = m.player_x
              /\ landed >= m.player_y
              /\ \A y \in m.player_y..landed :
                    PlacementLegal(m.blocks, m.current_shape, m.player_x, y)
              /\ ~PlacementLegal(m.blocks, m.current_shape, m.player_x, landed + 1)
              /\ tetris'.score = m.score
                    => /\ \A cell \in PieceCells(m.current_shape, m.player_x, landed) :
                             CellAt(tetris'.blocks, cell[2], cell[1] - 1) = m.current_shape.color
                       /\ OccupiedCount(tetris'.blocks)
                             = OccupiedCount(m.blocks) + SHAPE_PIXEL_COUNT ]_vars

C14_Witness ==
    /\ phase = "render"
    /\ ticks = 1
    /\ last.input = " "
    /\ last.fossilized
    /\ tetris.previous_shape = STRAIGHT
    /\ tetris.player_x = PLAYER_STARTING_X
    /\ tetris.player_y = GAME_HEIGHT - 3
    /\ tetris.blocks[GAME_HEIGHT][PLAYER_STARTING_X] = CYAN

(***************************************************************************)
(* C15: a hold command ('h') issued while holding is permitted makes the   *)
(* held piece the active piece (no active piece when nothing was held)     *)
(* and the active piece the held piece, puts the anchor at the spawn       *)
(* position and clears the permission; issued while holding is not         *)
(* permitted it changes nothing.                                           *)
(***************************************************************************)
C15_HoldSwapsWhenPermitted ==
    [][ (/\ UpdateStep
         /\ last'.input = "h"
         /\ before_dispatch(tetris).fault = "none")
        => LET m == before_dispatch(tetris)
           IN IF m.can_hold_shape
              THEN /\ tetris'.current_shape = m.held_shape
                   /\ tetris'.held_shape = m.current_shape
                   /\ tetris'.player_x = PLAYER_STARTING_X
                   /\ tetris'.player_y = PLAYER_STARTING_Y
                   /\ ~tetris'.can_hold_shape
              ELSE tetris' = m ]_vars

\* a hold that has swapped two pieces, away from the spawn position
C15_Witness ==
    /\ phase = "render"
    /\ last.input = "h"
    /\ tetris.current_shape # NoShape
    /\ tetris.held_shape # NoShape
    /\ tetris.current_shape.color # tetris.held_shape.color
    /\ ~tetris.can_hold_shape
    /\ tetris.player_x = PLAYER_STARTING_X
    /\ tetris.player_y = PLAYER_STARTING_Y

(***************************************************************************)
(* C16: between two consecutive fossilizations at most one hold takes      *)
(* effect: a hold takes effect only with the permission set and clears it, *)
(* only a hold clears the permission, and only a step that fossilizes a    *)
(* piece sets it again.                                                    *)
(***************************************************************************)
C16_OneHoldPerPiece ==
    [][ /\ (/\ UpdateStep
            /\ last'.input = "h"
            /\ before_dispatch(tetris).fault = "none"
            /\ tetris' # before_dispatch(tetris))
              => before_dispatch(tetris).can_hold_shape /\ ~tetris'.can_hold_shape
        /\ (tetris.can_hold_shape /\ ~tetris'.can_hold_shape)
              => UpdateStep /\ last'.input = "h"
        /\ (~tetris.can_hold_shape /\ tetris'.can_hold_shape)
              => UpdateStep /\ last'.fossilized ]_vars

\* a fossilization has set the permission again after a hold
C16_Witness ==
    /\ phase = "render"
    /\ last.fossilized
    /\ last.input # "h"
    /\ tetris.held_shape # NoShape
    /\ tetris.can_hold_shape

(***************************************************************************)
(* C17: when a freshly spawned piece fails the check at the spawn          *)
(* position, the running flag is cleared, the board and the score are as   *)
(* they were and the piece is not fossilized; and the running flag, once   *)
(* false, stays false.                                                     *)
(***************************************************************************)
C17_SpawnFailureEndsGame ==
    [][ /\ (/\ SpawnStep
            /\ tetris'.fault = "none"
            /\ is_shape_in_bounds(tetris') # <<TRUE, TRUE>>)
              => /\ ~tetris'.is_running
                 /\ tetris'.blocks = tetris.blocks
                 /\ tetris'.score = tetris.score
        /\ ~tetris.is_running => ~tetris'.is_running ]_vars

C17_Witness ==
    /\ phase = "update"
    /\ last.op = "render"
    /\ ~tetris.is_running
    /\ tetris.current_shape # NoShape
    /\ tetris.player_x = PLAYER_STARTING_X
    /\ tetris.player_y = PLAYER_STARTING_Y
    /\ ~PlacementLegal(tetris.blocks, tetris.current_shape, tetris.player_x, tetris.player_y)

(***************************************************************************)
(* The first render on its own: SpecSpawn starts from the constructed      *)
(* engine, for every seed modulo Modulus, and renders once.                *)
(***************************************************************************)
InitSpawn ==
    \E seed \in 0..(Modulus - 1) :
        /\ tetris = new(seed)
        /\ phase = "render"
        /\ ticks = 0
        /\ last = NoEvent

NextSpawn == Render

SpecSpawn == InitSpawn /\ [][NextSpawn]_vars

ShapeSet == {SHAPES[i] : i \in 1..Len(SHAPES)}

(***************************************************************************)
(* C18: on an empty board each of the 7 kinds passes the check at the      *)
(* start position, and the first spawn yields one of them there with the   *)
(* running flag still set.                                                 *)
(***************************************************************************)
C18_FirstSpawnPassesCheck ==
    /\ \A shape \in ShapeSet :
          is_shape_in_bounds([new(0) EXCEPT !.current_shape = shape]) = <<TRUE, TRUE>>
    /\ last.op = "render"
          => /\ tetris.is_running
             /\ tetris.fault = "none"
             /\ tetris.current_shape \in ShapeSet
             /\ tetris.player_x = PLAYER_STARTING_X
             /\ tetris.player_y = PLAYER_STARTING_Y
             /\ tetris.blocks = EmptyBlocks
             /\ is_shape_in_bounds(tetris) = <<TRUE, TRUE>>

C18_Witness ==
    /\ last.op = "render"
    /\ tetris.is_running
    /\ tetris.current_shape = LEFT_L
    /\ tetris.blocks = EmptyBlocks

(***************************************************************************)
(* Tetris::is_shape_in_bounds on its own: SpecChecker draws a piece (any   *)
(* kind, any orientation), an anchor on or one step around the board, and  *)
(* a board that is empty or has one occupied cell under a cell of the      *)
(* piece, and calls the checker.                                           *)
(***************************************************************************)
Orientations(shape) ==
    { shape, rotate(shape, TRUE), rotate(rotate(shape, TRUE), TRUE), rotate(shape, FALSE) }

OneBlock(row, col) == [EmptyBlocks EXCEPT ![row + 1][col + 1] = RED]

ProbeBoards(shape, x, y) ==
    {EmptyBlocks} \cup
        { OneBlock(cell[2], cell[1] - 1) :
              cell \in {c \in PieceCells(shape, x, y) : CellOnBoard(c)} }

CheckEvent(flags) ==
    [op |-> "check", input |-> NoInput, fossilized |-> FALSE, rows_cleared |-> 0,
     fossil_kind |-> 0, flags |-> flags]

InitChecker ==
    \E kind \in ShapeSet, x \in 0..(GAME_WIDTH + 1), y \in 0..(GAME_HEIGHT + 1) :
        \E shape \in Orientations(kind) :
            \E blocks \in ProbeBoards(shape, x, y) :
                /\ tetris = [new(0) EXCEPT !.current_shape = shape,
                                           !.player_x = x,
                                           !.player_y = y,
                                           !.blocks = blocks]
                /\ phase = "check"
                /\ ticks = 0
                /\ last = NoEvent

Check ==
    /\ phase = "check"
    /\ last' = CheckEvent(is_shape_in_bounds(tetris))
    /\ phase' = "checked"
    /\ UNCHANGED <<tetris, ticks>>

NextChecker == Check

SpecChecker == InitChecker /\ [][NextChecker]_vars

ActiveCells == PieceCells(tetris.current_shape, tetris.player_x, tetris.player_y)

(***************************************************************************)
(* C19: on an empty board the checker reports (TRUE, TRUE) for a piece     *)
(* whose every cell lies within [1, width-1] x [1, height-1], the x flag   *)
(* FALSE whenever some cell is at x = 0 or x = width, and the y flag FALSE *)
(* whenever some cell is at y = 0 or y = height.                           *)
(***************************************************************************)
C19_CheckerOnEmptyBoard ==
    (phase = "checked" /\ tetris.blocks = EmptyBlocks)
    => /\ (\A cell \in ActiveCells :
              /\ cell[1] >= 1 /\ cell[1] <= GAME_WIDTH - 1
              /\ cell[2] >= 1 /\ cell[2] <= GAME_HEIGHT - 1)
          => last.flags = <<TRUE, TRUE>>
       /\ (\E cell \in ActiveCells : cell[1] = 0 \/ cell[1] = GAME_WIDTH)
          => ~last.flags[1]
       /\ (\E cell \in ActiveCells : cell[2] = 0 \/ cell[2] = GAME_HEIGHT)
          => ~last.flags[2]

ShapeEvent(op, flag, from, origin) ==
    [op |-> op, input |-> NoInput, fossilized |-> FALSE, rows_cleared |-> 0,
     fossil_kind |-> 0, flag |-> flag, from |-> from, origin |-> origin]

InitShape ==
    \E kind \in ShapeSet, x \in 0..(GAME_WIDTH + 1), y \in 0..(GAME_HEIGHT + 1) :
        \E shape \in Orientations(kind) :
            /\ tetris = [new(0) EXCEPT !.current_shape = shape,
                                       !.player_x = x,
                                       !.player_y = y]
            /\ phase = "shape"
            /\ ticks = 0
            /\ last = ShapeEvent("none", FALSE, shape, shape)

Flip ==
    /\ phase \in {"shape", "flipped"}
    /\ \E horizontally \in BOOLEAN :
          /\ phase = "flipped" => horizontally = last.flag
          /\ tetris' = [tetris EXCEPT !.current_shape = flip(@, horizontally)]
          /\ last' = ShapeEvent("flip", horizontally, tetris.current_shape, last.origin)
    /\ phase' = IF phase = "shape" THEN "flipped" ELSE "flipped twice"
    /\ UNCHANGED ticks

Rotate ==
    /\ phase \in {"shape", "rotated"}
    /\ \E rotate_left \in BOOLEAN :
          /\ phase = "rotated" => rotate_left = ~last.flag
          /\ tetris' = [tetris EXCEPT !.current_shape = rotate(@, rotate_left)]
          /\ last' = ShapeEvent("rotate", rotate_left, tetris.current_shape, last.origin)
    /\ phase' = IF phase = "shape" THEN "rotated" ELSE "rotated back"
    /\ UNCHANGED ticks

NextShape == Flip \/ Rotate

SpecShape == InitShape /\ [][NextShape]_vars

WithinBounds(shape) ==
    is_within_bounds(shape, tetris.player_x, tetris.player_y) = <<TRUE, TRUE>>

HalfTurned(shape) == rotate(rotate(shape, TRUE), TRUE)

C22_RotateTrueIsDyMinusDx ==
    [][ (phase = "shape" /\ phase' = "rotated")
        => \A i \in 1..SHAPE_PIXEL_COUNT :
              tetris'.current_shape.pixels[i] =
                 IF last'.flag
                 THEN <<tetris.current_shape.pixels[i][2], -tetris.current_shape.pixels[i][1]>>
                 ELSE <<-tetris.current_shape.pixels[i][2], tetris.current_shape.pixels[i][1]>> ]_vars

(***************************************************************************)
(* C22, amended: rotate with its flag TRUE maps every offset (dx, dy) to   *)
(* (-dy, dx), and with its flag FALSE to (dy, -dx); the colour and the     *)
(* number of offsets are unchanged.                                        *)
(***************************************************************************)
C22_RotateTrueIsMinusDyDx ==
    [][ (phase = "shape" /\ phase' = "rotated")
        => /\ \A i \in 1..SHAPE_PIXEL_COUNT :
                 tetris'.current_shape.pixels[i] =
                    IF last'.flag
                    THEN <<-tetris.current_shape.pixels[i][2], tetris.current_shape.pixels[i][1]>>
                    ELSE <<tetris.current_shape.pixels[i][2], -tetris.current_shape.pixels[i][1]>>
           /\ Len(tetris'.current_shape.pixels) = SHAPE_PIXEL_COUNT
           /\ tetris'.current_shape.color = tetris.current_shape.color ]_vars

\* LEFT_L rotated with the flag TRUE: its offset (-1, 0) has become (0, -1)
C22_Witness ==
    /\ phase = "rotated"
    /\ last.flag
    /\ last.from = LEFT_L
    /\ tetris.current_shape.pixels = << <<0, -1>>, <<0, 0>>, <<1, 0>>, <<2, 0>> >>

(***************************************************************************)
(* C23: for every kind and orientation, rotating with the flag TRUE and    *)
(* then FALSE, and FALSE and then TRUE, gives back the four offsets        *)
(* in their order.                                                         *)
(***************************************************************************)
C23_RotateThenRotateBack ==
    phase = "rotated back" => tetris.current_shape = last.origin

C23_Witness ==
    /\ phase = "rotated back"
    /\ last.flag
    /\ last.origin = RIGHT_SKEWED
    /\ last.from # last.origin
    /\ tetris.current_shape = RIGHT_SKEWED

(***************************************************************************)
(* C24: for every kind and orientation and each axis, flipping twice about *)
(* the same axis gives back the four offsets.                              *)
(***************************************************************************)
C24_FlipTwice ==
    phase = "flipped twice" => tetris.current_shape = last.origin

C24_Witness ==
    /\ phase = "flipped twice"
    /\ last.flag
    /\ last.origin = LEFT_SKEWED
    /\ last.from # last.origin
    /\ tetris.current_shape = LEFT_SKEWED

(***************************************************************************)
(* C25: the ghost-piece computation of render leaves the engine as it      *)
(* found it: a render changes neither fall_timer nor score nor the board   *)
(* and does not panic, and a render with an active piece (which spawns     *)
(* nothing) changes nothing at all, offsets and anchor included.           *)
(***************************************************************************)
C25_GhostLeavesEngineUnchanged ==
    [][ phase = "render"
        => /\ tetris'.fault # "panic"
           /\ tetris'.fall_timer = tetris.fall_timer
           /\ tetris'.score = tetris.score
           /\ tetris'.blocks = tetris.blocks
           /\ tetris.current_shape # NoShape => tetris' = tetris ]_vars

\* rendered with the ghost more than ten rows below the piece
C25_Witness ==
    /\ phase = "update"
    /\ last.op = "render"
    /\ ticks >= 1
    /\ tetris.current_shape # NoShape
    /\ ghost(tetris).player_y > tetris.player_y + 10

(***************************************************************************)
(* The input thread and the tick loop together: SpecInput starts from the  *)
(* first render.  event_thread sends every character it reads into the     *)
(* channel, at any time; update takes at most one character out of it      *)
(* (Screen::read_input is try_recv).  last carries the channel, the        *)
(* characters sent so far and the characters received so far.  A send      *)
(* during a tick is a send before or after the tick's try_recv.            *)
(***************************************************************************)
MaxKeys == 3

TypedKeys == {"a", "h", " ", "other"}

\* variant: the channel is emptied by one read
ReadInputDrainsChannel(channel) ==
    IF channel = <<>>
    THEN [input |-> NoInput, channel |-> channel]
    ELSE [input |-> Head(channel), channel |-> <<>>]

\* Receiver::try_recv: the oldest character, or none
read_input(channel) ==
    IF channel = <<>>
    THEN [input |-> NoInput, channel |-> channel]
    ELSE [input |-> Head(channel), channel |-> Tail(channel)]

WithChannel(event, channel, sent, received) ==
    [op |-> event.op, input |-> event.input, fossilized |-> event.fossilized,
     rows_cleared |-> event.rows_cleared, fossil_kind |-> event.fossil_kind,
     channel |-> channel, sent |-> sent, received |-> received]

InitInput ==
    /\ tetris = render(new(0))
    /\ phase = "update"
    /\ ticks = 0
    /\ last = WithChannel(NoEvent, <<>>, <<>>, <<>>)

Send ==
    /\ Len(last.sent) < MaxKeys
    /\ \E character \in TypedKeys :
          last' = [last EXCEPT !.channel = Append(@, character),
                               !.sent = Append(@, character)]
    /\ UNCHANGED <<tetris, phase, ticks>>

UpdateFromChannel ==
    /\ phase = "update"
    /\ tetris.is_running
    /\ tetris.fault = "none"
    /\ ticks < MaxTicks
    /\ tetris' = update(tetris, read_input(last.channel).input)
    /\ last' = WithChannel(UpdateEvent(tetris, read_input(last.channel).input,
                                       last.fossil_kind),
                           read_input(last.channel).channel,
                           last.sent,
                           IF read_input(last.channel).input = NoInput
                           THEN last.received
                           ELSE Append(last.received, read_input(last.channel).input))
    /\ phase' = "render"
    /\ ticks' = ticks + 1

RenderBesideChannel ==
    /\ phase = "render"
    /\ tetris.fault = "none"
    /\ tetris' = render(tetris)
    /\ phase' = "update"
    /\ last' = WithChannel([NoEvent EXCEPT !.op = "render", !.fossil_kind = last.fossil_kind],
                           last.channel, last.sent, last.received)
    /\ UNCHANGED ticks

NextInput == Send \/ UpdateFromChannel \/ RenderBesideChannel

SpecInput == InitInput /\ [][NextInput]_vars

(***************************************************************************)
(* C26: with keys sent while the loop ticks, a tick takes at most one key, *)
(* the oldest in the channel, and acts on it; the other keys stay queued   *)
(* in their order; no key is lost or duplicated: the keys sent are the     *)
(* keys received followed by the keys queued.                              *)
(***************************************************************************)
C26_OneKeyPerTickInOrder ==
    [][ /\ last'.sent = last'.received \o last'.channel
        /\ UpdateStep
              => /\ tetris' = update(tetris, last'.input)
                 /\ IF last.channel = <<>>
                    THEN /\ last'.input = NoInput
                         /\ last'.received = last.received
                         /\ last'.channel = <<>>
                    ELSE /\ last'.input = Head(last.channel)
                         /\ last'.received = Append(last.received, Head(last.channel))
                         /\ last'.channel = Tail(last.channel)
        /\ ~UpdateStep => last'.received = last.received ]_vars

\* three keys sent before the second tick: two taken, one by each tick, the
\* third still queued
C26_Witness ==
    /\ phase = "render"
    /\ ticks = 2
    /\ last.sent = <<"a", " ", "h">>
    /\ last.received = <<"a", " ">>
    /\ last.channel = <<"h">>
    /\ last.input = " "
    /\ last.fossilized

(***************************************************************************)
(* The randomizer alone: SpecGenerator builds two generators with the      *)
(* program's modulus, multiplier and increment from the same clock         *)
(* reading and lets each draw on its own.  tetris is the first generator,  *)
(* last the second; each keeps its seed field and the outputs it returned. *)
(***************************************************************************)
MaxSeed == 300

MaxDraws == 3

RandomGenerator(seed) == [seed |-> seed, origin |-> seed, outputs |-> <<>>]

Draw(generator) ==
    [generator EXCEPT !.seed = generate(generator.seed),
                      !.outputs = Append(@, generate(generator.seed))]

InitGenerator ==
    /\ \E seed \in 0..MaxSeed :
          /\ tetris = RandomGenerator(seed)
          /\ last = RandomGenerator(seed)
    /\ phase = "generate"
    /\ ticks = 0

GenerateFirst ==
    /\ Len(tetris.outputs) < MaxDraws
    /\ tetris' = Draw(tetris)
    /\ ticks' = ticks + 1
    /\ UNCHANGED <<phase, last>>

GenerateSecond ==
    /\ Len(last.outputs) < MaxDraws
    /\ last' = Draw(last)
    /\ ticks' = ticks + 1
    /\ UNCHANGED <<phase, tetris>>

NextGenerator == GenerateFirst \/ GenerateSecond

SpecGenerator == InitGenerator /\ [][NextGenerator]_vars

StateBefore(generator, i) ==
    IF i = 1 THEN generator.origin ELSE generator.outputs[i - 1]

C28_GhostRowIsHardDropRow ==
    [][ (/\ UpdateStep
         /\ last'.input = " "
         /\ tetris.current_shape # NoShape)
        => /\ ghost(tetris).fault = "none"
           /\ \A call \in FossilCalls(tetris, " ") :
                 /\ call.current_shape = tetris.current_shape
                 /\ call.player_x = tetris.player_x
                 /\ call.player_y = ghost(tetris).player_y
           /\ tetris'.fault = "none"
                 => /\ last'.fossilized
                    /\ tetris'.current_shape = NoShape
                    /\ tetris'.previous_shape = tetris.current_shape
                    /\ tetris'.player_x = tetris.player_x
                    /\ last'.rows_cleared = 0
                          => \A cell \in PieceCells(tetris.current_shape, tetris.player_x,
                                                    ghost(tetris).player_y) :
                                CellAt(tetris'.blocks, cell[2], cell[1] - 1)
                                   = tetris.current_shape.color ]_vars

\* a hard drop in the third tick, after the piece has moved, from a row
\* well above the ghost's
C28_Witness ==
    /\ phase = "render"
    /\ ticks >= 3
    /\ last.input = " "
    /\ last.fossilized
    /\ tetris.current_shape = NoShape
    /\ tetris.player_x # PLAYER_STARTING_X
    /\ tetris.player_y > PLAYER_STARTING_Y + 10

(***************************************************************************)
(* C29: whenever update has returned, no row of the board is completely    *)
(* occupied: a fossilization removes every full row it creates before it   *)
(* returns.  (The board changes in update only, so the same holds after a  *)
(* render.)                                                                *)
(***************************************************************************)
C29_NoFullRowAfterUpdate ==
    tetris.fault = "none" => \A row \in RowIndices : ~RowFull(tetris.blocks[row + 1])

\* update has returned from a fossilization that completed two rows at once,
\* and blocks remain on the board
C29_Witness ==
    /\ phase = "render"
    /\ tetris.fault = "none"
    /\ last.fossilized
    /\ last.rows_cleared = 2
    /\ OccupiedCount(tetris.blocks) > 0

(***************************************************************************)
(* The game left alone: SpecIdle starts from the first render for every    *)
(* seed of the generator and ticks with an empty input channel.  The loop  *)
(* of main runs for as long as the game is running, hence the weak         *)
(* fairness of its step.  MaxIdleTicks is above the length of the longest  *)
(* of these runs (169 ticks).                                              *)
(***************************************************************************)
MaxIdleTicks == 200

InitIdle ==
    /\ \E seed \in 0..(Modulus - 1) : tetris = render(new(seed))
    /\ phase = "update"
    /\ ticks = 0
    /\ last = NoEvent

UpdateIdle ==
    /\ phase = "update"
    /\ tetris.is_running
    /\ tetris.fault = "none"
    /\ ticks < MaxIdleTicks
    /\ tetris' = update(tetris, NoInput)
    /\ last' = UpdateEvent(tetris, NoInput, last.fossil_kind)
    /\ phase' = "render"
    /\ ticks' = ticks + 1

NextIdle == UpdateIdle \/ Render

\* the loop takes its next step: enabled exactly where NextIdle is, and every
\* step of NextIdle is one (each changes phase)
LoopStep ==
    /\ tetris.fault = "none"
    /\ phase = "update" => tetris.is_running /\ ticks < MaxIdleTicks
    /\ phase' = IF phase = "update" THEN "render" ELSE "update"

SpecIdle == InitIdle /\ [][NextIdle]_vars /\ WF_phase(LoopStep)

(***************************************************************************)
(* C30: with no input ever, and as long as no spawn draw fails to end,     *)
(* every piece spawned into a running game is fossilized after finitely    *)
(* many ticks, and the game eventually is over (is_running is false).      *)
(***************************************************************************)
C30_IdleGameEnds ==
    /\ (tetris.current_shape # NoShape /\ tetris.is_running /\ tetris.fault = "none")
          ~> (tetris.current_shape = NoShape /\ last.fossilized)
    /\ <>(~tetris.is_running \/ tetris.fault = "spin")

\* the game is over after more than a hundred ticks without input: the piece
\* that failed the check at its spawn is there, no row was ever cleared
C30_Witness ==
    /\ ~tetris.is_running
    /\ tetris.fault = "none"
    /\ tetris.current_shape # NoShape
    /\ tetris.score = 0
    /\ ticks > 100
    /\ OccupiedCount(tetris.blocks) >= 5 * SHAPE_PIXEL_COUNT

====
